---- MODULE Spec2Model ----
(***************************************************************************)
(* Model of stats_tracker (src/app.py): the SQLite store behind the        *)
(* stats/entries tables, the start-up migration init_db, and the request   *)
(* handlers that write stats and entries.                                  *)
(*                                                                         *)
(* Text is a sequence of atoms: one-character strings for numeric form     *)
(* fields, whitespace-free chunks (a date, a kind name) elsewhere; " " is  *)
(* the whitespace atom.  SQL NULL is the empty sequence; a non-text value  *)
(* v stored in a nullable column is <<v>>.  A REAL is an exact decimal     *)
(* [m, e] meaning m / 10^e.                                                *)
(*                                                                         *)
(* Spec runs the handlers one at a time, SpecMig runs init_db on databases *)
(* of earlier versions, SpecConc interleaves the statements of overlapping *)
(* set_daily_count and increment_daily_count requests.                     *)
(***************************************************************************)
EXTENDS Integers, Sequences, FiniteSets, TLC

VARIABLES db, clock, boots, req, resp, inflight, writer

vars == <<db, clock, boots, req, resp, inflight, writer>>

\* ---------------------------------------------------------------- bounds
MaxStatId == 2
MaxEntryId == 2
MaxClock == 2
MaxBoots == 2
MaxLegacyRows == 2

MaxClients == 2

\* ---------------------------------------------------------------- values
None == <<>>

Some(v) == <<v>>

\* str.strip(): drop leading and trailing whitespace atoms
RECURSIVE LStrip(_)
LStrip(s) == IF s # <<>> /\ Head(s) = " " THEN LStrip(Tail(s)) ELSE s

RECURSIVE RStrip(_)
RStrip(s) == IF s # <<>> /\ s[Len(s)] = " " THEN RStrip(SubSeq(s, 1, Len(s) - 1)) ELSE s

Strip(s) == RStrip(LStrip(s))

\* value.replace(",", ".")
ReplaceComma(s) == [i \in 1..Len(s) |-> IF s[i] = "," THEN "." ELSE s[i]]

DigitChars == <<"0", "1", "2", "3", "4", "5", "6", "7", "8", "9">>

IsDigit(c) == \E i \in 1..10 : DigitChars[i] = c

DigitVal(c) == (CHOOSE i \in 1..10 : DigitChars[i] = c) - 1

AllDigits(s) == \A i \in 1..Len(s) : IsDigit(s[i])

RECURSIVE DigitsVal(_)
DigitsVal(s) == IF s = <<>> THEN 0 ELSE DigitsVal(SubSeq(s, 1, Len(s) - 1)) * 10 + DigitVal(s[Len(s)])

RECURSIVE Pow10(_)
Pow10(n) == IF n = 0 THEN 1 ELSE 10 * Pow10(n - 1)

HasSign(s) == s # <<>> /\ Head(s) \in {"-", "+"}

Unsigned(s) == IF HasSign(s) THEN Tail(s) ELSE s

SignOf(s) == IF s # <<>> /\ Head(s) = "-" THEN -1 ELSE 1

\* int(text.strip()): optional sign then decimal digits, otherwise ValueError
ParseInt(s) ==
    LET t == Strip(s)
        u == Unsigned(t)
    IN IF u # <<>> /\ AllDigits(u)
       THEN [ok |-> TRUE, v |-> SignOf(t) * DigitsVal(u)]
       ELSE [ok |-> FALSE, v |-> 0]

\* drop trailing zeros of the fraction so that equal reals are equal records
RECURSIVE Normal(_)
Normal(x) == IF x.e > 0 /\ x.m % 10 = 0 THEN Normal([m |-> x.m \div 10, e |-> x.e - 1]) ELSE x

\* float(c) of an int
FloatOfInt(c) == [m |-> c, e |-> 0]

\* int(x) of a float: truncation toward zero
IntOfFloat(x) == IF x.m >= 0 THEN x.m \div Pow10(x.e) ELSE -((-x.m) \div Pow10(x.e))

DotAt(u) == IF \E i \in 1..Len(u) : u[i] = "." THEN CHOOSE i \in 1..Len(u) : u[i] = "." /\ \A j \in 1..(i - 1) : u[j] # "." ELSE 0

\* float(text): surrounding whitespace ignored; "nan"; optional sign, digits
\* with at most one "." and a digit on one side of it; otherwise ValueError.
\* (Exponents, "inf" and digit-group underscores are outside the inputs used.)
ParseFloat(s) ==
    LET t == Strip(s)
        u == Unsigned(t)
        d == DotAt(u)
        ip == IF d = 0 THEN u ELSE SubSeq(u, 1, d - 1)
        fp == IF d = 0 THEN <<>> ELSE SubSeq(u, d + 1, Len(u))
    IN IF u = <<"n", "a", "n">>
       THEN [ok |-> TRUE, nan |-> TRUE, v |-> FloatOfInt(0)]
       ELSE IF AllDigits(ip) /\ AllDigits(fp) /\ Len(ip) + Len(fp) > 0
            THEN [ok |-> TRUE, nan |-> FALSE,
                  v |-> Normal([m |-> SignOf(t) * (DigitsVal(ip) * Pow10(Len(fp)) + DigitsVal(fp)), e |-> Len(fp)])]
            ELSE [ok |-> FALSE, nan |-> FALSE, v |-> FloatOfInt(0)]

\* sqlite3 binds a Python float as a double; SQLite stores a NaN double as NULL
BindFloat(p) == IF p.nan THEN None ELSE Some(p.v)

\* date.today().isoformat()
DateAtom(n) == IF n = 1 THEN "2024-03-01" ELSE IF n = 2 THEN "2024-03-02" ELSE IF n = 3 THEN "2024-03-03" ELSE "2024-03-04"

TodayIso(c) == <<DateAtom(c)>>

\* datetime.utcnow().isoformat()
UtcNowIso(c) == <<DateAtom(c), "T", "12:00:00">>

\* d = (day or "").strip() or date.today().isoformat()
DayOrToday(day, c) == IF Strip(day) # <<>> THEN Strip(day) ELSE TodayIso(c)

\* note.strip() or None
NoteOrNone(note) == IF Strip(note) # <<>> THEN Strip(note) ELSE None

\* ---------------------------------------------------------------- store
\* A table: its stored definition (columns, the word UNIQUE in the CREATE
\* text, the FOREIGN KEY ... ON DELETE CASCADE clause, NOT NULL columns), its
\* rows, and its sqlite_sequence counter (AUTOINCREMENT never reuses an id).
NoTable == [exists |-> FALSE, cols |-> {}, sql_unique |-> FALSE, fk |-> FALSE, notnull |-> {}, rows |-> {}, seq |-> 0]

StatsCols == {"id", "name", "unit", "kind", "created_at"}

EntriesCols == {"id", "stat_id", "day", "value_num", "value_bool", "value_hits", "value_total", "note", "created_at"}

\* CREATE TABLE stats (...)
NewStatsTable == [exists |-> TRUE, cols |-> StatsCols, sql_unique |-> FALSE, fk |-> FALSE, notnull |-> {"name", "unit", "kind", "created_at"}, rows |-> {}, seq |-> 0]

\* CREATE TABLE entries (...): no UNIQUE(stat_id, day)
NewEntriesTable == [exists |-> TRUE, cols |-> EntriesCols, sql_unique |-> FALSE, fk |-> TRUE, notnull |-> {"stat_id", "day", "created_at"}, rows |-> {}, seq |-> 0]

NoDb == [stats |-> NoTable, entries |-> NoTable, entries_old |-> NoTable, entries_old2 |-> NoTable]

StatRow(id, name, unit, kind, created_at) ==
    [id |-> id, name |-> name, unit |-> unit, kind |-> kind, created_at |-> created_at]

EntryRow(id, stat_id, day, value, value_num, value_bool, value_hits, value_total, note, created_at) ==
    [id |-> id, stat_id |-> stat_id, day |-> day, value |-> value, value_num |-> value_num,
     value_bool |-> value_bool, value_hits |-> value_hits, value_total |-> value_total,
     note |-> note, created_at |-> created_at]

MaxOf(S) == IF S = {} THEN 0 ELSE CHOOSE x \in S : \A y \in S : y <= x

Ids(rows) == {r.id : r \in rows}

\* rowid chosen by AUTOINCREMENT
NextId(t) == MaxOf(Ids(t.rows) \cup {t.seq}) + 1

\* SELECT ... ORDER BY id ASC
RECURSIVE SortById(_)
SortById(rows) ==
    IF rows = {} THEN <<>>
    ELSE LET r == CHOOSE x \in rows : \A y \in rows : x.id <= y.id
         IN <<r>> \o SortById(rows \ {r})

\* SELECT kind FROM stats WHERE id = ?
StatOf(d, stat_id) == {s \in d.stats.rows : s.id = stat_id}

StatKind(d, stat_id) == (CHOOSE s \in d.stats.rows : s.id = stat_id).kind

\* INSERT INTO entries (stat_id, ...) VALUES (...), or with an explicit id when
\* id > 0.  IntegrityError on a NULL in a NOT NULL column and, with
\* foreign_keys = ON, on a stat_id that is no stats row.
InsertEntryOk(d, r) ==
    /\ \A c \in d.entries.notnull \cap {"day", "created_at"} : r[c] # None
    /\ d.entries.fk => r.stat_id \in Ids(d.stats.rows)

InsertEntry(d, r) ==
    LET id == IF r.id > 0 THEN r.id ELSE NextId(d.entries)
    IN [d EXCEPT !.entries.rows = @ \cup {[r EXCEPT !.id = id]},
                 !.entries.seq = MaxOf({@, id})]

\* INSERT INTO stats (name, unit, kind, created_at) VALUES (...)
InsertStat(d, name, unit, kind, created_at) ==
    LET id == NextId(d.stats)
    IN [d EXCEPT !.stats.rows = @ \cup {StatRow(id, name, unit, kind, created_at)},
                 !.stats.seq = id]

\* DeleteEntriesOfDay deleting nothing
DeleteEntriesOfDay_Nothing(d, stat_id, day) == d

\* DeleteEntriesOfDay with the "AND day = ?" test left out
DeleteEntriesOfDay_AnyDay(d, stat_id, day) ==
    [d EXCEPT !.entries.rows = {r \in @ : r.stat_id # stat_id}]

\* DELETE FROM entries WHERE stat_id = ? AND day = ?
DeleteEntriesOfDay(d, stat_id, day) ==
    [d EXCEPT !.entries.rows = {r \in @ : ~(r.stat_id = stat_id /\ r.day = day)}]

\* DELETE FROM entries WHERE id = ?
DeleteEntryById(d, entry_id) ==
    [d EXCEPT !.entries.rows = {r \in @ : r.id # entry_id}]

\* Cascade without ON DELETE CASCADE
Cascade_Off(t, stat_id) == t

\* rows of a child table left after the parent stats row is deleted
Cascade(t, stat_id) == IF t.fk THEN [t EXCEPT !.rows = {r \in @ : r.stat_id # stat_id}] ELSE t

\* DELETE FROM stats WHERE id = ?   (foreign_keys = ON, ON DELETE CASCADE)
DeleteStatById(d, stat_id) ==
    [stats |-> [d.stats EXCEPT !.rows = {s \in @ : s.id # stat_id}],
     entries |-> Cascade(d.entries, stat_id),
     entries_old |-> Cascade(d.entries_old, stat_id),
     entries_old2 |-> Cascade(d.entries_old2, stat_id)]

\* ---------------------------------------------------------------- connection
\* sqlite3 connection in its default mode: a transaction is opened before an
\* INSERT/UPDATE/DELETE, a DDL statement outside a transaction is committed
\* at once, commit() persists the working state, close() drops what is
\* uncommitted.
Connect(d) == [cur |-> d, com |-> d, intx |-> FALSE]

Ddl(c, d) == IF c.intx THEN [c EXCEPT !.cur = d] ELSE [cur |-> d, com |-> d, intx |-> FALSE]

Dml(c, d) == [cur |-> d, com |-> c.com, intx |-> TRUE]

Commit(c) == [cur |-> c.cur, com |-> c.cur, intx |-> FALSE]

Close(c) == c.com

\* ---------------------------------------------------------------- init_db
\* PRAGMA table_info(table)
TableColumns(d, table) == d[table].cols

\* the value an ALTER TABLE ... ADD COLUMN gives the existing rows
ColumnDefault(col) == IF col = "kind" THEN <<"numeric">> ELSE None

\* add_column_if_missing: ALTER TABLE ADD COLUMN, then commit
add_column_if_missing(c, table, col) ==
    IF col \notin TableColumns(c.cur, table)
    THEN Commit(Ddl(c, [c.cur EXCEPT ![table].cols = @ \cup {col},
                                     ![table].notnull = @ \cup ({col} \cap {"unit", "kind"}),
                                     ![table].rows = {[r EXCEPT ![col] = ColumnDefault(col)] : r \in @}]))
    ELSE c

\* "unique" in sql and "stat_id" in sql and "day" in sql, on the stored
\* definition of entries
entries_table_has_unique_day(d) ==
    /\ d.entries.exists
    /\ d.entries.sql_unique
    /\ "stat_id" \in d.entries.cols
    /\ "day" \in d.entries.cols

\* CREATE TABLE IF NOT EXISTS stats / entries, each followed by a commit
CreateTables(c) ==
    LET c1 == IF c.cur.stats.exists THEN c ELSE Ddl(c, [c.cur EXCEPT !.stats = NewStatsTable])
        c2 == Commit(c1)
        c3 == IF c2.cur.entries.exists THEN c2 ELSE Ddl(c2, [c2.cur EXCEPT !.entries = NewEntriesTable])
    IN Commit(c3)

\* stage 1: ensure columns exist
BackfillColumns(c) ==
    LET a1 == add_column_if_missing(c, "stats", "unit")
        a2 == add_column_if_missing(a1, "stats", "kind")
        a3 == add_column_if_missing(a2, "entries", "day")
        a4 == add_column_if_missing(a3, "entries", "value_num")
        a5 == add_column_if_missing(a4, "entries", "value_bool")
        a6 == add_column_if_missing(a5, "entries", "value_hits")
        a7 == add_column_if_missing(a6, "entries", "value_total")
        a8 == add_column_if_missing(a7, "entries", "note")
    IN add_column_if_missing(a8, "entries", "created_at")

AtomLen(a) == IF a \in {"T", " "} THEN 1 ELSE Len(a)

\* created[:10], on whole atoms
RECURSIVE Prefix(_, _)
Prefix(s, n) ==
    IF s = <<>> \/ AtomLen(Head(s)) > n THEN <<>>
    ELSE <<Head(s)>> \o Prefix(Tail(s), n - AtomLen(Head(s)))

\* created.split("T")[0]
RECURSIVE BeforeT(_)
BeforeT(s) == IF s = <<>> \/ Head(s) = "T" THEN <<>> ELSE <<Head(s)>> \o BeforeT(Tail(s))

\* derived_day = created.split("T")[0] if "T" in created else created[:10]
DerivedDay(created) ==
    IF \E i \in 1..Len(created) : created[i] = "T" THEN BeforeT(created) ELSE Prefix(created, 10)

\* the row stage 2 inserts for a legacy row r (a fresh id, day from created_at)
LegacyCopy(r, clk) ==
    LET created == IF r.created_at # None THEN r.created_at ELSE UtcNowIso(clk)
    IN EntryRow(0, r.stat_id, DerivedDay(created), None, r.value, None, None, None, r.note, created)

\* the row stage 3 inserts for a row r of entries_old2 (the id kept)
UniqueCopy(r) ==
    EntryRow(r.id, r.stat_id, r.day, None, r.value_num, r.value_bool, r.value_hits, r.value_total, r.note, r.created_at)

\* for r in old_rows: INSERT ...   The first failing INSERT raises and leaves
\* the rows inserted so far in the open transaction.
RECURSIVE CopyRows(_, _)
CopyRows(c, rows) ==
    IF rows = <<>> THEN [ok |-> TRUE, c |-> c]
    ELSE IF InsertEntryOk(c.cur, Head(rows))
         THEN CopyRows(Dml(c, InsertEntry(c.cur, Head(rows))), Tail(rows))
         ELSE [ok |-> FALSE, c |-> c]

\* ALTER TABLE entries RENAME TO <old>; CREATE TABLE entries (...)
RenameAndRecreate(c, old) ==
    LET c1 == Ddl(c, [c.cur EXCEPT ![old] = c.cur.entries, !.entries = NoTable])
    IN Ddl(c1, [c1.cur EXCEPT !.entries = NewEntriesTable])

\* DROP TABLE <old>; conn.commit()
DropAndCommit(c, old) == Commit(Ddl(c, [c.cur EXCEPT ![old] = NoTable]))

\* stage 2: migration from the first version (entries had a "value" column)
MigrateLegacyValue(c, clk) ==
    IF "value" \in TableColumns(c.cur, "entries")
    THEN IF c.cur.entries_old.exists
         THEN c
         ELSE LET c2 == RenameAndRecreate(c, "entries_old")
                  old_rows == SortById(c2.cur.entries_old.rows)
                  res == CopyRows(c2, [i \in 1..Len(old_rows) |-> LegacyCopy(old_rows[i], clk)])
              IN IF res.ok THEN DropAndCommit(res.c, "entries_old") ELSE res.c
    ELSE c

\* stage 3: remove UNIQUE(stat_id, day) by rebuilding the table
RemoveUniqueDay(c) ==
    IF entries_table_has_unique_day(c.cur)
    THEN IF c.cur.entries_old2.exists
         THEN c
         ELSE LET c2 == RenameAndRecreate(c, "entries_old2")
                  old_rows == SortById(c2.cur.entries_old2.rows)
                  res == CopyRows(c2, [i \in 1..Len(old_rows) |-> UniqueCopy(old_rows[i])])
              IN IF res.ok THEN DropAndCommit(res.c, "entries_old2") ELSE res.c
    ELSE c

\* UPDATE stats SET kind = 'count_daily', unit = '' WHERE kind = 'boolean_daily'
RetypeBooleanDaily(d) ==
    [d EXCEPT !.stats.rows = {IF s.kind = <<"boolean_daily">>
                              THEN [s EXCEPT !.kind = <<"count_daily">>, !.unit = <<>>]
                              ELSE s : s \in @}]

\* FoldBooleans that adds the flag to the value, without the IS NULL guard
FoldBooleans_Unguarded(d) ==
    [d EXCEPT !.entries.rows = {IF e.value_bool = Some(1)
                                THEN [e EXCEPT !.value_num = Some(FloatOfInt((IF @ = None THEN 0 ELSE IntOfFloat(@[1])) + 1))]
                                ELSE e : e \in @}]

\* UPDATE entries SET value_num = 1 WHERE value_bool = 1 AND value_num IS NULL
FoldBooleans(d) ==
    [d EXCEPT !.entries.rows = {IF e.value_bool = Some(1) /\ e.value_num = None
                                THEN [e EXCEPT !.value_num = Some(FloatOfInt(1))]
                                ELSE e : e \in @}]

\* stage 4: boolean_daily -> count_daily
MigrateBooleanDaily(c) ==
    LET c1 == Dml(c, RetypeBooleanDaily(c.cur))
    IN Commit(Dml(c1, FoldBooleans(c1.cur)))

\* init_db(): the database file after the connection is closed
init_db(d, clk) ==
    Close(MigrateBooleanDaily(RemoveUniqueDay(MigrateLegacyValue(BackfillColumns(CreateTables(Connect(d))), clk))))

\* ---------------------------------------------------------------- handlers
\* RedirectResponse(url, status_code=303); an uncaught exception is a 500
Redirect(path, id) == [status |-> 303, path |-> path, id |-> id]

ToListing == Redirect("/", 0)

ToStat(stat_id) == Redirect("/stat/", stat_id)

ServerError == [status |-> 500, path |-> "", id |-> 0]

NoResp == [status |-> 0, path |-> "", id |-> 0]

Request(op, stat_id, entry_id, a, b, day, note) ==
    [op |-> op, stat_id |-> stat_id, entry_id |-> entry_id, a |-> a, b |-> b, day |-> day, note |-> note]

NoReq == Request("none", 0, 0, <<>>, <<>>, <<>>, <<>>)

Outcome(d, r) == [db |-> d, resp |-> r]

\* CleanKind without the coercion to numeric
CleanKind_AsGiven(kind) == Strip(IF kind = <<>> THEN <<"numeric">> ELSE kind)

\* kind = (kind or "numeric").strip(); anything else than the three kinds is numeric
CleanKind(kind) ==
    LET k == Strip(IF kind = <<>> THEN <<"numeric">> ELSE kind)
    IN IF k \in {<<"numeric">>, <<"ratio">>, <<"count_daily">>} THEN k ELSE <<"numeric">>

\* unit_clean = unit.strip(); "" unless kind is numeric
CleanUnit(kind, unit) == IF CleanKind(kind) # <<"numeric">> THEN <<>> ELSE Strip(unit)

\* POST /stats
create_stat(d, clk, name, kind, unit) ==
    Outcome(InsertStat(d, Strip(name), CleanUnit(kind, unit), CleanKind(kind), UtcNowIso(clk)), ToListing)

\* add_numeric_entry that replaces the rows of the day (INSERT OR REPLACE by day)
add_numeric_entry_Replace(d, clk, stat_id, value, day, note) ==
    LET dd == DayOrToday(day, clk)
        v == ParseFloat(ReplaceComma(value))
    IN IF ~v.ok THEN Outcome(d, ServerError)
       ELSE IF StatOf(d, stat_id) = {} THEN Outcome(d, ToListing)
       ELSE IF StatKind(d, stat_id) # <<"numeric">> THEN Outcome(d, ToStat(stat_id))
       ELSE Outcome(InsertEntry(DeleteEntriesOfDay(d, stat_id, dd),
                                EntryRow(0, stat_id, dd, None, BindFloat(v), None, None, None,
                                         NoteOrNone(note), UtcNowIso(clk))),
                    ToStat(stat_id))

\* POST /stat/{stat_id}/entries
add_numeric_entry(d, clk, stat_id, value, day, note) ==
    LET dd == DayOrToday(day, clk)
        v == ParseFloat(ReplaceComma(value))
    IN IF ~v.ok THEN Outcome(d, ServerError)
       ELSE IF StatOf(d, stat_id) = {} THEN Outcome(d, ToListing)
       ELSE IF StatKind(d, stat_id) # <<"numeric">> THEN Outcome(d, ToStat(stat_id))
       ELSE Outcome(InsertEntry(d, EntryRow(0, stat_id, dd, None, BindFloat(v), None, None, None,
                                            NoteOrNone(note), UtcNowIso(clk))),
                    ToStat(stat_id))

\* RatioRejected with the h > t test left out
RatioRejected_NoUpper(h, t) == t <= 0 \/ h < 0

\* t <= 0 or h < 0 or h > t
RatioRejected(h, t) == t <= 0 \/ h < 0 \/ h > t

\* POST /stat/{stat_id}/ratio
add_ratio_entry(d, clk, stat_id, hits, total, day, note) ==
    LET dd == DayOrToday(day, clk)
        h == ParseInt(hits)
        t == ParseInt(total)
    IN IF ~h.ok \/ ~t.ok THEN Outcome(d, ServerError)
       ELSE IF RatioRejected(h.v, t.v) THEN Outcome(d, ToStat(stat_id))
       ELSE IF StatOf(d, stat_id) = {} THEN Outcome(d, ToListing)
       ELSE IF StatKind(d, stat_id) # <<"ratio">> THEN Outcome(d, ToStat(stat_id))
       ELSE Outcome(InsertEntry(d, EntryRow(0, stat_id, dd, None, None, None, Some(h.v), Some(t.v),
                                            NoteOrNone(note), UtcNowIso(clk))),
                    ToStat(stat_id))

\* if c < 0: c = 0
ClampCount(c) == IF c < 0 THEN 0 ELSE c

\* ReplaceDailyRow with the DELETE left out
ReplaceDailyRow_InsertOnly(d, clk, stat_id, dd, new_val, note) ==
    InsertEntry(d, EntryRow(0, stat_id, dd, None, Some(FloatOfInt(new_val)), None, None, None, note, UtcNowIso(clk)))

\* DELETE the rows of (stat, day), then INSERT the single canonical row
ReplaceDailyRow(d, clk, stat_id, dd, new_val, note) ==
    InsertEntry(DeleteEntriesOfDay(d, stat_id, dd),
                EntryRow(0, stat_id, dd, None, Some(FloatOfInt(new_val)), None, None, None, note, UtcNowIso(clk)))

\* POST /stat/{stat_id}/count
set_daily_count(d, clk, stat_id, count, day, note) ==
    LET dd == DayOrToday(day, clk)
        c == ParseInt(count)
    IN IF ~c.ok THEN Outcome(d, ServerError)
       ELSE IF StatOf(d, stat_id) = {} THEN Outcome(d, ToListing)
       ELSE IF StatKind(d, stat_id) # <<"count_daily">> THEN Outcome(d, ToStat(stat_id))
       ELSE Outcome(ReplaceDailyRow(d, clk, stat_id, dd, ClampCount(c.v), NoteOrNone(note)), ToStat(stat_id))

\* CurrentCount that never reads the stored row
CurrentCount_Zero(d, stat_id, dd) == 0

\* SELECT id, value_num FROM entries WHERE stat_id = ? AND day = ? ORDER BY id DESC LIMIT 1
\* current = int(row["value_num"]) if row and row["value_num"] is not None else 0
CurrentCount(d, stat_id, dd) ==
    LET rows == {r \in d.entries.rows : r.stat_id = stat_id /\ r.day = dd}
        row == CHOOSE r \in rows : \A o \in rows : o.id <= r.id
    IN IF rows # {} /\ row.value_num # None THEN IntOfFloat(row.value_num[1]) ELSE 0

\* increment_daily_count without the kind check
increment_daily_count_AnyKind(d, clk, stat_id, day) ==
    LET dd == DayOrToday(day, clk)
    IN IF StatOf(d, stat_id) = {} THEN Outcome(d, ToListing)
       ELSE Outcome(ReplaceDailyRow(d, clk, stat_id, dd, CurrentCount(d, stat_id, dd) + 1, None), ToStat(stat_id))

\* POST /stat/{stat_id}/count/increment
increment_daily_count(d, clk, stat_id, day) ==
    LET dd == DayOrToday(day, clk)
    IN IF StatOf(d, stat_id) = {} THEN Outcome(d, ToListing)
       ELSE IF StatKind(d, stat_id) # <<"count_daily">> THEN Outcome(d, ToStat(stat_id))
       ELSE Outcome(ReplaceDailyRow(d, clk, stat_id, dd, CurrentCount(d, stat_id, dd) + 1, None), ToStat(stat_id))

\* POST /stat/{stat_id}/delete
delete_stat(d, stat_id) == Outcome(DeleteStatById(d, stat_id), ToListing)

\* POST /entry/{entry_id}/delete   (stat_id is a form field)
delete_entry(d, entry_id, stat_id) == Outcome(DeleteEntryById(d, entry_id), ToStat(stat_id))

\* ---------------------------------------------------------------- inputs
ConcStatIds == 1..2

StatIds == 1..(MaxStatId + 1)

EntryIds == 1..(MaxEntryId + 1)

NameInputs == {<<" ", "Weight">>}

KindInputs == {<<"numeric">>, <<" ", "ratio">>, <<"count_daily">>, <<"boolean_daily">>}

UnitInputs == {<<"kg", " ">>}

ValueInputs == {<<"8", "2", ",", "4">>, <<"n", "a", "n">>}

\* (hits, total) form fields
RatioInputs == {<<<<"1">>, <<" ", "2">>>>, <<<<"3">>, <<"2">>>>, <<<<"0">>, <<"0">>>>, <<<<"-", "1">>, <<"2">>>>}

CountInputs == {<<" ", "1">>, <<"-", "2">>, <<>>}

DayInputs == {<<>>, <<"2024-03-02", " ">>}

\* the note field filled in
NoteInputs == {<<"note", " ">>}

\* the note field left blank
BlankNotes == {<<" ">>}

\* the day field left blank
BlankDays == {<<>>}

\* ---------------------------------------------------------------- actions
Clients == 1..MaxClients

\* a request in flight: its parsed fields, its position in the handler, the
\* value its SELECT returned and its connection's uncommitted database
Call(op, stat_id, day, count, note, pc, response) ==
    [op |-> op, stat_id |-> stat_id, day |-> day, count |-> count, note |-> note, pc |-> pc,
     current |-> 0, work |-> NoDb, resp |-> response]

NoCall == Call("none", 0, <<>>, 0, None, "idle", NoResp)

Handled(r, out) ==
    /\ out.db.stats.seq <= MaxStatId
    /\ out.db.entries.seq <= MaxEntryId
    /\ db' = out.db
    /\ req' = r
    /\ resp' = out.resp
    /\ UNCHANGED <<clock, boots, inflight, writer>>

CreateStat ==
    \E name \in NameInputs, kind \in KindInputs, unit \in UnitInputs :
        Handled(Request("create_stat", 0, 0, kind, unit, <<>>, <<>>), create_stat(db, clock, name, kind, unit))

AddNumeric ==
    \E stat_id \in StatIds, value \in ValueInputs, day \in BlankDays, note \in BlankNotes :
        Handled(Request("add_numeric_entry", stat_id, 0, value, <<>>, day, note),
                add_numeric_entry(db, clock, stat_id, value, day, note))

AddRatio ==
    \E stat_id \in StatIds, ht \in RatioInputs, day \in BlankDays, note \in BlankNotes :
        Handled(Request("add_ratio_entry", stat_id, 0, ht[1], ht[2], day, note),
                add_ratio_entry(db, clock, stat_id, ht[1], ht[2], day, note))

SetDailyCount ==
    \E stat_id \in StatIds, count \in CountInputs, day \in DayInputs, note \in NoteInputs :
        Handled(Request("set_daily_count", stat_id, 0, count, <<>>, day, note),
                set_daily_count(db, clock, stat_id, count, day, note))

IncrementDailyCount ==
    \E stat_id \in StatIds, day \in DayInputs :
        Handled(Request("increment_daily_count", stat_id, 0, <<>>, <<>>, day, <<>>),
                increment_daily_count(db, clock, stat_id, day))

DeleteStat ==
    \E stat_id \in StatIds :
        Handled(Request("delete_stat", stat_id, 0, <<>>, <<>>, <<>>, <<>>), delete_stat(db, stat_id))

DeleteEntry ==
    \E entry_id \in EntryIds, stat_id \in StatIds :
        Handled(Request("delete_entry", stat_id, entry_id, <<>>, <<>>, <<>>, <<>>),
                delete_entry(db, entry_id, stat_id))

\* process start: init_db() runs at import, some time after the last start
Boot ==
    /\ boots < MaxBoots
    /\ \E now \in clock..MaxClock :
          /\ clock' = now
          /\ db' = init_db(db, now)
    /\ boots' = boots + 1
    /\ UNCHANGED <<req, resp, inflight, writer>>

\* the application serving requests on a database it created itself
Init ==
    /\ db = init_db(NoDb, 1)
    /\ clock = 1
    /\ boots = 1
    /\ req = NoReq
    /\ resp = NoResp
    /\ inflight = [c \in Clients |-> NoCall]
    /\ writer = 0

Next ==
    \/ CreateStat
    \/ AddNumeric
    \/ AddRatio
    \/ SetDailyCount
    \/ IncrementDailyCount
    \/ DeleteStat
    \/ DeleteEntry

Spec == Init /\ [][Next]_vars

\* ---------------------------------------------------------------- concurrent requests
\* The handlers are plain functions, which the framework runs on worker
\* threads: requests overlap.  Each has its own connection.  A SELECT reads the
\* committed database and holds no lock afterwards; the DELETE opens the
\* connection's transaction and takes the database's write lock, which it keeps
\* until conn.commit(); a connection that finds the lock taken waits and, when
\* the wait times out, raises.
Returned(call, response) == [call EXCEPT !.pc = "returned", !.work = NoDb, !.resp = response]

\* set_daily_count up to conn = db()
ReceiveSet(c) ==
    \E stat_id \in ConcStatIds, count \in CountInputs, day \in BlankDays, note \in NoteInputs :
        LET n == ParseInt(count)
        IN inflight' = [inflight EXCEPT ![c] =
              IF n.ok
              THEN Call("set_daily_count", stat_id, DayOrToday(day, clock), ClampCount(n.v), NoteOrNone(note), "stat", NoResp)
              ELSE Call("set_daily_count", stat_id, DayOrToday(day, clock), 0, None, "returned", ServerError)]

\* increment_daily_count up to conn = db()
ReceiveIncrement(c) ==
    \E stat_id \in ConcStatIds, day \in BlankDays :
        inflight' = [inflight EXCEPT ![c] =
              Call("increment_daily_count", stat_id, DayOrToday(day, clock), 0, None, "stat", NoResp)]

Receive(c) ==
    /\ inflight[c].pc = "idle"
    /\ ReceiveSet(c) \/ ReceiveIncrement(c)
    /\ UNCHANGED <<db, clock, boots, req, resp, writer>>

\* stat = SELECT kind FROM stats WHERE id = ?, and the two early returns
SelectKind(c) ==
    LET call == inflight[c]
    IN /\ call.pc = "stat"
       /\ inflight' = [inflight EXCEPT ![c] =
             IF StatOf(db, call.stat_id) = {} THEN Returned(call, ToListing)
             ELSE IF StatKind(db, call.stat_id) # <<"count_daily">> THEN Returned(call, ToStat(call.stat_id))
             ELSE [call EXCEPT !.pc = IF call.op = "increment_daily_count" THEN "row" ELSE "delete"]]
       /\ UNCHANGED <<db, clock, boots, req, resp, writer>>

\* row = SELECT id, value_num ... ORDER BY id DESC LIMIT 1; current = ...
SelectRow(c) ==
    LET call == inflight[c]
    IN /\ call.pc = "row"
       /\ inflight' = [inflight EXCEPT ![c] =
             [call EXCEPT !.pc = "delete", !.current = CurrentCount(db, call.stat_id, call.day)]]
       /\ UNCHANGED <<db, clock, boots, req, resp, writer>>

\* conn.execute("DELETE ..."): the transaction begins, with the write lock
DeleteRows(c) ==
    LET call == inflight[c]
    IN /\ call.pc = "delete"
       /\ writer = 0
       /\ writer' = c
       /\ inflight' = [inflight EXCEPT ![c] =
             [call EXCEPT !.pc = "insert", !.work = DeleteEntriesOfDay(db, call.stat_id, call.day)]]
       /\ UNCHANGED <<db, clock, boots, req, resp>>

\* conn.execute("DELETE ...") raising "database is locked" after the timeout
Locked(c) ==
    LET call == inflight[c]
    IN /\ call.pc = "delete"
       /\ writer \notin {0, c}
       /\ inflight' = [inflight EXCEPT ![c] = Returned(call, ServerError)]
       /\ UNCHANGED <<db, clock, boots, req, resp, writer>>

\* c for set_daily_count, new_val = current + 1 for increment_daily_count
NewVal(call) == IF call.op = "increment_daily_count" THEN call.current + 1 ELSE call.count

\* conn.execute("INSERT INTO entries ...")
InsertRow(c) ==
    LET call == inflight[c]
    IN /\ call.pc = "insert"
       /\ inflight' = [inflight EXCEPT ![c] =
             [call EXCEPT !.pc = "commit",
                          !.work = InsertEntry(call.work, EntryRow(0, call.stat_id, call.day, None,
                                                                   Some(FloatOfInt(NewVal(call))), None, None, None,
                                                                   call.note, UtcNowIso(clock)))]]
       /\ UNCHANGED <<db, clock, boots, req, resp, writer>>

\* conn.commit(); conn.close(); return RedirectResponse(...)
CommitWrite(c) ==
    LET call == inflight[c]
    IN /\ call.pc = "commit"
       /\ db' = call.work
       /\ writer' = 0
       /\ inflight' = [inflight EXCEPT ![c] = [call EXCEPT !.pc = "committed", !.work = NoDb, !.resp = ToStat(call.stat_id)]]
       /\ UNCHANGED <<clock, boots, req, resp>>

\* a database with one count_daily stat, its day without a row or with the
\* row a set_daily_count wrote
ConcDbs ==
    LET fresh == create_stat(init_db(NoDb, 1), 1, <<"Steps">>, <<"count_daily">>, <<>>).db
    IN {fresh} \cup {set_daily_count(fresh, 1, 1, count, <<>>, <<"note">>).db : count \in {<<"1">>}}

ConcInit ==
    /\ db \in ConcDbs
    /\ clock = 1
    /\ boots = 1
    /\ req = NoReq
    /\ resp = NoResp
    /\ inflight = [c \in Clients |-> NoCall]
    /\ writer = 0

ConcNext ==
    \E c \in Clients :
        \/ Receive(c)
        \/ SelectKind(c)
        \/ SelectRow(c)
        \/ DeleteRows(c)
        \/ Locked(c)
        \/ InsertRow(c)
        \/ CommitWrite(c)

\* overlapping set_daily_count and increment_daily_count requests
SpecConc == ConcInit /\ [][ConcNext]_vars

\* ---------------------------------------------------------------- migration
\* Databases written by earlier versions of the application, as init_db
\* expects to find them: stats without unit/kind, entries in the first shape
\* (a "value" column, with or without the later "day" column), entries with
\* UNIQUE(stat_id, day), boolean_daily stats with value_bool entries.  Ids have
\* gaps (rows were deleted); stat_id 9 is a row whose stat is gone.
LegacyStamps == {None, <<"2024-01-05", "T", "08:00:00">>, <<"2024-01-06", " ", "08:00:00">>}

LegacyStatsTables ==
    {[NewStatsTable EXCEPT !.cols = {"id", "name", "created_at"}, !.notnull = {"name", "created_at"}, !.seq = 1,
                           !.rows = {StatRow(1, <<"Weight">>, None, None, <<"2024-01-01", "T", "08:00:00">>)}]}
    \cup {[NewStatsTable EXCEPT !.seq = 1, !.rows = {StatRow(1, <<"Weight">>, unit, kind, <<"2024-01-01", "T", "08:00:00">>)}] :
            unit \in {<<"kg">>}, kind \in {<<"numeric">>, <<"boolean_daily">>}}

\* the rows a legacy entries table may hold under id
FirstShapeRows(id, days) ==
    {EntryRow(id, stat_id, day, Some(FloatOfInt(5)), None, None, None, None, None, created_at) :
        stat_id \in {1, 9}, day \in days, created_at \in LegacyStamps}

DayShapeRows(id) ==
    {EntryRow(id, stat_id, <<DateAtom(id)>>, None, value_num, value_bool, None, None, None, <<"2024-01-05", "T", "08:00:00">>) :
        stat_id \in {1, 9}, value_num \in {None, Some(FloatOfInt(3))}, value_bool \in {None, Some(1)}}

LegacyIds == {2 * i : i \in 1..MaxLegacyRows}

\* every choice of at most one row per id
RowSets(pool(_)) ==
    LET picks == [LegacyIds -> BOOLEAN]
    IN UNION {{{f[i] : i \in {j \in LegacyIds : p[j]}} : f \in [LegacyIds -> UNION {pool(i) : i \in LegacyIds}]} : p \in picks}

WellFormed(rows) == \A r \in rows : \A o \in rows : r.id = o.id => r = o

FirstRowsOf(days) == {rows \in RowSets(LAMBDA i : FirstShapeRows(i, days)) : WellFormed(rows)}

LegacyEntriesTables ==
    {NoTable}
    \cup {[NewEntriesTable EXCEPT !.cols = {"id", "stat_id", "value", "note", "created_at"}, !.fk = FALSE,
                                  !.notnull = {"stat_id"}, !.rows = rows, !.seq = MaxOf(Ids(rows))] :
            rows \in FirstRowsOf({None})}
    \cup {[NewEntriesTable EXCEPT !.cols = {"id", "stat_id", "day", "value", "note", "created_at"}, !.fk = FALSE,
                                  !.notnull = {"stat_id"}, !.rows = rows, !.seq = MaxOf(Ids(rows))] :
            rows \in FirstRowsOf({None, <<"2024-02-29">>})}
    \cup {[NewEntriesTable EXCEPT !.cols = {"id", "stat_id", "day", "value_num", "value_bool", "note", "created_at"},
                                  !.sql_unique = u, !.rows = rows, !.seq = MaxOf(Ids(rows))] :
            u \in BOOLEAN, rows \in {x \in RowSets(DayShapeRows) : WellFormed(x)}}

LegacyDbs ==
    {NoDb} \cup {[NoDb EXCEPT !.stats = s, !.entries = e] : s \in LegacyStatsTables, e \in LegacyEntriesTables}

MigInit ==
    /\ db \in LegacyDbs
    /\ clock \in 1..MaxClock
    /\ boots = 0
    /\ req = NoReq
    /\ resp = NoResp
    /\ inflight = [c \in Clients |-> NoCall]
    /\ writer = 0

MigNext == Boot

\* the application started repeatedly on a database of an earlier version
SpecMig == MigInit /\ [][MigNext]_vars

\* ---------------------------------------------------------------- properties
CountDaily == <<"count_daily">>

Numeric == <<"numeric">>

Ratio == <<"ratio">>

EntryWrites == {"add_numeric_entry", "add_ratio_entry", "set_daily_count", "increment_daily_count"}

TargetKind(op) ==
    IF op = "add_numeric_entry" THEN Numeric ELSE IF op = "add_ratio_entry" THEN Ratio ELSE CountDaily

EntriesFor(d, stat_id, day) == {e \in d.entries.rows : e.stat_id = stat_id /\ e.day = day}

StatsOfKind(d, kind) == {s \in d.stats.rows : s.kind = kind}

DaysIn(d) == {e.day : e \in d.entries.rows}

\* the day a request is for
EffectiveDay(r) == IF Strip(r.day) = <<>> THEN <<DateAtom(clock)>> ELSE Strip(r.day)

\* the form fields of request r parse
FieldsParse(r) ==
    CASE r.op = "add_numeric_entry" -> ParseFloat(ReplaceComma(r.a)).ok
      [] r.op = "add_ratio_entry" -> ParseInt(r.a).ok /\ ParseInt(r.b).ok
      [] r.op = "set_daily_count" -> ParseInt(r.a).ok
      [] OTHER -> TRUE

BadRatio(r) ==
    /\ r.op = "add_ratio_entry"
    /\ ParseInt(r.a).ok /\ ParseInt(r.b).ok
    /\ (ParseInt(r.b).v <= 0 \/ ParseInt(r.a).v < 0 \/ ParseInt(r.a).v > ParseInt(r.b).v)

\* request r, an entry write, is accepted on database d: its fields parse and
\* pass validation and its stat exists and has the operation's kind
Accepted(r, d) ==
    /\ r.op \in EntryWrites
    /\ FieldsParse(r)
    /\ ~BadRatio(r)
    /\ \E s \in d.stats.rows : s.id = r.stat_id /\ s.kind = TargetKind(r.op)

DailyWrites == {"set_daily_count", "increment_daily_count"}

\* C1: a (stat, day) of a count_daily stat never has more than one entry row,
\* and right after an accepted set_daily_count or increment_daily_count on
\* (stat, day) it has exactly one.
C1_OneRowPerDay ==
    /\ \A s \in StatsOfKind(db, CountDaily) : \A day \in DaysIn(db) :
          Cardinality(EntriesFor(db, s.id, day)) <= 1
    /\ (req.op \in DailyWrites /\ Accepted(req, db)) =>
          Cardinality(EntriesFor(db, req.stat_id, EffectiveDay(req))) = 1

\* a second daily write on the same (stat, day) has replaced the first row
C1_Witness ==
    /\ req.op = "increment_daily_count"
    /\ Accepted(req, db)
    /\ \E e \in EntriesFor(db, req.stat_id, EffectiveDay(req)) : e.id = 2 /\ e.value_num = Some(FloatOfInt(2))

\* the value stored for (stat, day) before a write, a missing row or NULL being 0
PriorValue(d, stat_id, day) ==
    LET rows == EntriesFor(d, stat_id, day)
    IN IF rows = {} \/ \E e \in rows : e.value_num = None
       THEN FloatOfInt(0)
       ELSE (CHOOSE e \in rows : TRUE).value_num[1]

PlusOne(x) == [m |-> x.m + Pow10(x.e), e |-> x.e]

\* an accepted increment leaves one row for its (stat, day), holding the
\* prior value plus 1 and no note
IncrementAddsOne ==
    (req'.op = "increment_daily_count" /\ Accepted(req', db)) =>
        \E e \in db'.entries.rows :
            /\ EntriesFor(db', req'.stat_id, EffectiveDay(req')) = {e}
            /\ e.value_num = Some(PlusOne(PriorValue(db, req'.stat_id, EffectiveDay(req'))))
            /\ e.note = None

\* an accepted increment that follows an accepted set_daily_count of the same
\* (stat, day)
IncrementAfterSet ==
    /\ req.op = "set_daily_count" /\ Accepted(req, db)
    /\ req'.op = "increment_daily_count" /\ Accepted(req', db)
    /\ req'.stat_id = req.stat_id
    /\ EffectiveDay(req') = EffectiveDay(req)

\* an accepted increment on a (stat, day) without a row
IncrementOnFresh ==
    /\ req'.op = "increment_daily_count" /\ Accepted(req', db)
    /\ EntriesFor(db, req'.stat_id, EffectiveDay(req')) = {}

StoredCount(d, r, n) ==
    \E e \in d.entries.rows :
        /\ EntriesFor(d, r.stat_id, EffectiveDay(r)) = {e}
        /\ e.value_num = Some(FloatOfInt(n))
        /\ e.note = None

\* C2 as stated: an increment ends with one row holding the prior value plus
\* 1 and a null note; the first increment on a fresh (stat, day) stores 1; an
\* increment after set_daily_count(stat, c, day, note) stores c + 1.
C2_AsStated ==
    [][/\ IncrementAddsOne
       /\ IncrementOnFresh => StoredCount(db', req', 1)
       /\ IncrementAfterSet => StoredCount(db', req', ParseInt(req.a).v + 1)]_vars

\* C2 amended: as C2, but an increment after set_daily_count(stat, c, day,
\* note) stores max(0, c) + 1, the count having been clamped at 0.
C2_IncrementAfterClampedSet ==
    [][/\ IncrementAddsOne
       /\ IncrementOnFresh => StoredCount(db', req', 1)
       /\ IncrementAfterSet =>
            StoredCount(db', req', (IF ParseInt(req.a).v < 0 THEN 0 ELSE ParseInt(req.a).v) + 1)]_vars

\* an increment has followed set_daily_count(stat, 1, day, note): one row, value 2, no note
C2_Witness ==
    /\ req.op = "increment_daily_count"
    /\ Accepted(req, db)
    /\ db.entries.seq = 2
    /\ StoredCount(db, req, 2)

\* C3: an add_ratio_entry call with total <= 0, hits < 0 or hits > total
\* leaves the store as it was, and every entry of a ratio stat has
\* 0 <= value_hits <= value_total and value_total > 0.
C3_RatioBounds ==
    /\ [][BadRatio(req') => db' = db]_vars
    /\ [](\A s \in StatsOfKind(db, Ratio) : \A e \in db.entries.rows :
            e.stat_id = s.id =>
                /\ e.value_hits # None /\ e.value_total # None
                /\ 0 <= e.value_hits[1] /\ e.value_hits[1] <= e.value_total[1]
                /\ e.value_total[1] > 0)

\* a ratio stat that holds an entry has just refused hits > total
C3_Witness ==
    /\ BadRatio(req)
    /\ ParseInt(req.a).v > ParseInt(req.b).v
    /\ \E s \in StatsOfKind(db, Ratio) : s.id = req.stat_id /\ \E e \in db.entries.rows : e.stat_id = s.id

EntriesOfStat(d, stat_id) == {e \in d.entries.rows : e.stat_id = stat_id}

\* C4: every entry refers to an existing stat; delete_stat removes the stat
\* and its entries, and a stat just created has no entries.
C4_NoOrphanEntries ==
    /\ [](\A e \in db.entries.rows : \E s \in db.stats.rows : s.id = e.stat_id)
    /\ [][/\ req'.op = "delete_stat" =>
                /\ \A s \in db'.stats.rows : s.id # req'.stat_id
                /\ EntriesOfStat(db', req'.stat_id) = {}
          /\ req'.op = "create_stat" =>
                \A s \in db'.stats.rows \ db.stats.rows : EntriesOfStat(db', s.id) = {}]_vars

\* a stat that had an entry has just been deleted, and its entry with it
C4_Witness ==
    /\ req.op = "delete_stat"
    /\ req.stat_id <= db.stats.seq
    /\ db.entries.seq > 0
    /\ db.entries.rows = {}
    /\ resp = ToListing

ValidKinds == {Numeric, Ratio, CountDaily}

\* C5: every stored stat has one of the three kinds, a kind requested outside
\* them is stored as numeric, the unit is empty unless the kind is numeric,
\* and a stored stat is never changed, only deleted.
C5_StatKinds ==
    /\ [](\A s \in db.stats.rows : s.kind \in ValidKinds /\ (s.kind # Numeric => s.unit = <<>>))
    /\ [][/\ (req'.op = "create_stat" /\ Strip(req'.a) \notin ValidKinds) =>
                \A s \in db'.stats.rows \ db.stats.rows : s.kind = Numeric
          /\ \A s \in db.stats.rows : s \in db'.stats.rows \/ \A o \in db'.stats.rows : o.id # s.id]_vars

\* a stat requested with kind boolean_daily has been stored as numeric, its unit kept
C5_Witness ==
    /\ req.op = "create_stat"
    /\ req.a = <<"boolean_daily">>
    /\ \E s \in db.stats.rows : s.id = db.stats.seq /\ s.kind = Numeric /\ s.unit = <<"kg">>

\* C6: once init_db has run on a database, running it again changes neither
\* the schema nor the rows.
C6_InitDbIdempotent == [][boots >= 1 => db' = db]_vars

\* init_db has run twice on a database that held legacy rows
C6_Witness ==
    /\ boots = 2
    /\ db.entries.rows # {}
    /\ db.entries.cols = EntriesCols
    /\ ~db.entries.sql_unique

\* C7: an entry write on a stat of another kind changes nothing.
C7_KindMismatchNoOp ==
    [][(/\ req'.op \in EntryWrites
        /\ \E s \in db.stats.rows : s.id = req'.stat_id /\ s.kind # TargetKind(req'.op)) => db' = db]_vars

\* set_daily_count on a numeric stat has left that stat's entry of the day in place
C7_Witness ==
    /\ req.op = "set_daily_count"
    /\ FieldsParse(req)
    /\ \E s \in StatsOfKind(db, Numeric) : s.id = req.stat_id
    /\ EntriesFor(db, req.stat_id, EffectiveDay(req)) # {}

AppendWrites == {"add_numeric_entry", "add_ratio_entry"}

\* C8: an accepted add_numeric_entry or add_ratio_entry adds one row under a
\* new id and leaves every row that was there unchanged.
C8_AppendOnly ==
    [][(req'.op \in AppendWrites /\ Accepted(req', db)) =>
          /\ db.entries.rows \subseteq db'.entries.rows
          /\ Cardinality(db'.entries.rows \ db.entries.rows) = 1
          /\ \A e \in db'.entries.rows \ db.entries.rows :
                /\ e.id \notin Ids(db.entries.rows)
                /\ e.stat_id = req'.stat_id
                /\ e.day = EffectiveDay(req')]_vars

\* two accepted writes to one (stat, day) of a numeric stat have left two rows
C8_Witness ==
    /\ req.op = "add_numeric_entry"
    /\ Accepted(req, db)
    /\ Cardinality(EntriesFor(db, req.stat_id, EffectiveDay(req))) = 2

KindOfEntry(d, e) == (CHOOSE s \in d.stats.rows : s.id = e.stat_id).kind

\* C9: entries of numeric and count_daily stats have value_num set and
\* value_hits, value_total null; entries of ratio stats have value_hits and
\* value_total set and value_num null; value_bool is never set.
C9_ValueColumns ==
    \A e \in db.entries.rows :
        /\ e.value_bool = None
        /\ \E s \in db.stats.rows : s.id = e.stat_id
        /\ IF KindOfEntry(db, e) = Ratio
           THEN e.value_hits # None /\ e.value_total # None /\ e.value_num = None
           ELSE e.value_num # None /\ e.value_hits = None /\ e.value_total = None

\* C10: an entry write on an unknown stat id, and delete_entry on an unknown
\* entry id, write nothing and redirect to the listing, whatever the other
\* form fields are.
C10_NotFoundToListing ==
    [][/\ (req'.op \in EntryWrites /\ StatOf(db, req'.stat_id) = {}) =>
              db' = db /\ resp' = ToListing
       /\ (req'.op = "delete_entry" /\ req'.entry_id \notin Ids(db.entries.rows)) =>
              db' = db /\ resp' = ToListing]_vars

\* the entry rows that are not of (stat_id, day)
EntriesOutside(d, stat_id, day) == {e \in d.entries.rows : ~(e.stat_id = stat_id /\ e.day = day)}

AtLeastZero(n) == IF n > 0 THEN n ELSE 0

\* C15: set_daily_count and increment_daily_count leave the stats table and
\* every entry row of another stat or of another day of the same stat as they
\* were, and the one row an accepted set_daily_count(stat, count, day, note)
\* leaves for (stat, day) has value max(0, count).
C15_DailyWriteFrame ==
    [][req'.op \in DailyWrites =>
          /\ db'.stats = db.stats
          /\ EntriesOutside(db', req'.stat_id, EffectiveDay(req')) =
                EntriesOutside(db, req'.stat_id, EffectiveDay(req'))
          /\ (req'.op = "set_daily_count" /\ Accepted(req', db)) =>
                \E e \in db'.entries.rows :
                    /\ EntriesFor(db', req'.stat_id, EffectiveDay(req')) = {e}
                    /\ e.value_num = Some(FloatOfInt(AtLeastZero(ParseInt(req'.a).v)))]_vars

\* a negative count was set for a day while the stat holds a row of another day
C15_Witness ==
    /\ req.op = "set_daily_count"
    /\ Accepted(req, db)
    /\ ParseInt(req.a).v < 0
    /\ \E e \in EntriesFor(db, req.stat_id, EffectiveDay(req)) : e.value_num = Some(FloatOfInt(0))
    /\ \E o \in db.entries.rows : o.stat_id = req.stat_id /\ o.day # EffectiveDay(req)

\* init_db runs for the first time on a database whose entries table has the
\* legacy value column
LegacyValueRun == boots = 0 /\ "value" \in db.entries.cols

\* every row of d's entries table belongs to a stat of d
AllOwned(d) == \A r \in d.entries.rows : r.stat_id \in Ids(d.stats.rows)

\* e is the copy of legacy row r: the old value as value_num, stat_id and note
\* carried over, created_at carried over where the legacy row has one, the
\* legacy day kept where the row has one and taken from created_at otherwise
CopyOfLegacy(e, r) ==
    /\ e.stat_id = r.stat_id
    /\ e.value_num = r.value
    /\ e.note = r.note
    /\ r.created_at # None => e.created_at = r.created_at
    /\ e.day = (IF r.day # None THEN r.day ELSE DerivedDay(e.created_at))

\* C13: when entries has the legacy value column (and every legacy row
\* belongs to a stat), init_db leaves in entries exactly one copy of every
\* legacy row, numbered in ascending order of the legacy ids, a row that
\* already had a day keeping it, and the renamed old table is gone.
C13_LegacyRowsCopied ==
    [][(LegacyValueRun /\ AllOwned(db)) =>
          LET old_rows == SortById(db.entries.rows)
          IN /\ Cardinality(db'.entries.rows) = Len(old_rows)
             /\ \A i \in 1..Len(old_rows) :
                   \E e \in db'.entries.rows : e.id = i /\ CopyOfLegacy(e, old_rows[i])
             /\ ~db'.entries_old.exists]_vars

\* init_db runs for the first time
FirstRun == boots = 0

BooleanDaily == <<"boolean_daily">>

\* C14: on its first run init_db reaches its last stage whatever happened in
\* the earlier ones (no boolean_daily stat is left), a rebuilt entries table
\* whose old table is gone holds as many rows as the old one did, and a
\* rebuild that failed (its old table is still there) has left none of the
\* rows it copied.
C14_FailedStageContained ==
    [][FirstRun =>
          /\ StatsOfKind(db', BooleanDaily) = {}
          /\ (db.entries.exists /\ ~db'.entries_old.exists /\ ~db'.entries_old2.exists) =>
                Cardinality(db'.entries.rows) = Cardinality(db.entries.rows)
          /\ db'.entries_old.exists => db'.entries.rows = {}
          /\ db'.entries_old2.exists => db'.entries.rows = {}]_vars

\* client c moves from position p to position q of its handler
Moves(c, p, q) == inflight[c].pc = p /\ inflight'[c].pc = q

IsIncrement(call) == call.op = "increment_daily_count"

\* the clients whose write on the (stat, day) of call is committed
Writers(call) ==
    {w \in Clients : inflight[w].pc = "committed" /\ inflight[w].stat_id = call.stat_id /\ inflight[w].day = call.day}

\* every committed write on the (stat, day) of call is an increment that read v
AllReadTheSame(call, v) == \A w \in Writers(call) : IsIncrement(inflight[w]) /\ inflight[w].current = v

\* two or more increments of one (stat, day) that all read v and all
\* committed have left v + 1
LostUpdate ==
    \A c \in Clients :
        (Cardinality(Writers(inflight[c])) >= 2 /\ AllReadTheSame(inflight[c], inflight[c].current)) =>
            \E e \in db.entries.rows :
                /\ EntriesFor(db, inflight[c].stat_id, inflight[c].day) = {e}
                /\ e.value_num = Some(FloatOfInt(inflight[c].current + 1))

\* an increment reads the committed value of its (stat, day) in a step of its
\* own, and what it commits later is that value plus 1
ReadThenWrite ==
    \A c \in Clients :
        IsIncrement(inflight[c]) =>
            /\ Moves(c, "row", "delete") =>
                  FloatOfInt(inflight'[c].current) = PriorValue(db, inflight[c].stat_id, inflight[c].day)
            /\ Moves(c, "commit", "committed") =>
                  \E e \in db'.entries.rows :
                      /\ EntriesFor(db', inflight[c].stat_id, inflight[c].day) = {e}
                      /\ e.value_num = Some(FloatOfInt(inflight[c].current + 1))

\* C11: increment_daily_count reads the committed value before its
\* delete-and-insert and commits that value plus 1 whatever was committed in
\* between, so overlapping increments of one (stat, day) that read the same
\* value v leave v + 1 (the state C11_Witness is reached: a lost update).
C11_ReadModifyWriteRace == [](LostUpdate) /\ [][ReadThenWrite]_vars

\* two increments of one (stat, day) both read 1, both committed, and the row
\* holds 2
C11_Witness ==
    \E a \in Clients : \E b \in Clients \ {a} :
        /\ IsIncrement(inflight[a]) /\ IsIncrement(inflight[b])
        /\ inflight[a].pc = "committed" /\ inflight[b].pc = "committed"
        /\ inflight[a].stat_id = inflight[b].stat_id /\ inflight[a].day = inflight[b].day
        /\ inflight[a].current = 1 /\ inflight[b].current = 1
        /\ \E e \in db.entries.rows :
              /\ EntriesFor(db, inflight[a].stat_id, inflight[a].day) = {e}
              /\ e.value_num = Some(FloatOfInt(2))

\* some client's write commits in this step
SomeCommit == \E c \in Clients : Moves(c, "commit", "committed")

\* C12: while set_daily_count and increment_daily_count requests on one
\* (count_daily stat, day) overlap, the committed database never holds more
\* than one entry row for a (stat, day), it changes only when a request
\* commits (never after a DELETE alone), and a request that commits leaves
\* exactly one row for its (stat, day).
C12_OneRowUnderInterleaving ==
    /\ [](\A s \in StatsOfKind(db, CountDaily) : \A day \in DaysIn(db) :
              Cardinality(EntriesFor(db, s.id, day)) <= 1)
    /\ [][/\ db' # db => SomeCommit
          /\ \A c \in Clients :
                Moves(c, "commit", "committed") =>
                    Cardinality(EntriesFor(db', inflight[c].stat_id, inflight[c].day)) = 1]_vars

\* a set_daily_count committed between the SELECT and the commit of an
\* increment of the same (stat, day), and the day holds one row
C12_Witness ==
    \E a \in Clients : \E b \in Clients \ {a} :
        /\ inflight[a].op = "set_daily_count" /\ IsIncrement(inflight[b])
        /\ inflight[a].pc = "committed" /\ inflight[b].pc = "committed"
        /\ inflight[a].stat_id = inflight[b].stat_id /\ inflight[a].day = inflight[b].day
        /\ inflight[a].count = 1 /\ inflight[b].current = 0
        /\ \E e \in db.entries.rows :
              /\ EntriesFor(db, inflight[a].stat_id, inflight[a].day) = {e}
              /\ e.id = 2
              /\ e.value_num = Some(FloatOfInt(1))

====
